---------------------------- MODULE Spec2Model ----------------------------
(***************************************************************************)
(* DHCPot: the lease engine of the cooperative DHCP server (src/main.go,   *)
(* DHCPServer) and of the rogue DHCP handler (src/unnamed/part_000,        *)
(* RogueDHCPHandler).                                                      *)
(*                                                                         *)
(* Addresses are byte strings as in Go's net.IP: a 4-byte form (what the   *)
(* DHCP libraries hand out of a packet) and a 16-byte form (what           *)
(* net.ParseIP returns); the empty sequence is the nil IP.  Time is        *)
(* counted in ticks of 12 hours, so the 24 h lease lasts two ticks.        *)
(***************************************************************************)
EXTENDS Integers, Sequences, FiniteSets, TLC

\* Bound of the model: the clock stops advancing at MaxTime ticks.
MaxTime == 3

(***************************************************************************)
(* net.IP                                                                  *)
(***************************************************************************)
Nil == <<>>

v4InV6Prefix == <<0, 0, 0, 0, 0, 0, 0, 0, 0, 0, 255, 255>>

\* net.ParseIP of a dotted quad q = <<a, b, c, d>>: the 16-byte
\* IPv4-in-IPv6 form.
ParseIP(q) == v4InV6Prefix \o q

\* net.IP.To4: the 4-byte form, or nil when ip is no IPv4 address.
To4(ip) ==
    IF Len(ip) = 4 THEN ip
    ELSE IF Len(ip) = 16 /\ SubSeq(ip, 1, 12) = v4InV6Prefix
         THEN SubSeq(ip, 13, 16)
         ELSE Nil

\* net.IP.Equal: an IPv4 address and its 16-byte form are equal.
IPEqual(ip, x) ==
    IF Len(ip) = Len(x) THEN ip = x
    ELSE IF Len(ip) = 4 /\ Len(x) = 16
         THEN SubSeq(x, 1, 12) = v4InV6Prefix /\ ip = SubSeq(x, 13, 16)
    ELSE IF Len(ip) = 16 /\ Len(x) = 4
         THEN SubSeq(ip, 1, 12) = v4InV6Prefix /\ SubSeq(ip, 13, 16) = x
    ELSE FALSE

\* bytes.Compare: lexicographic order of two byte strings, as -1, 0 or 1.
RECURSIVE bytesCompare(_, _)
bytesCompare(a, b) ==
    IF a = <<>> /\ b = <<>> THEN 0
    ELSE IF a = <<>> THEN -1
    ELSE IF b = <<>> THEN 1
    ELSE IF Head(a) < Head(b) THEN -1
    ELSE IF Head(a) > Head(b) THEN 1
    ELSE bytesCompare(Tail(a), Tail(b))

\* The loop of nextIP: increment byte j, carry into byte j-1 on wrap to 0.
RECURSIVE nextIPFrom(_, _)
nextIPFrom(next, j) ==
    IF j < 1 THEN next
    ELSE LET b == (next[j] + 1) % 256
             n == [next EXCEPT ![j] = b]
         IN  IF b > 0 THEN n ELSE nextIPFrom(n, j - 1)

nextIP(ip) == nextIPFrom(ip, Len(ip))

(***************************************************************************)
(* DHCPServer (src/main.go)                                                *)
(***************************************************************************)
\* Clients, by the string form of their hardware address.
Clients == {"A", "B", "C"}

\* leaseDuration: 24 * time.Hour, in ticks of 12 hours.
leaseDuration == 2

\* The configurations the server is started with: <<server, pool start,
\* pool end>>.  In the second the server's own address lies inside the range.
ServerConfigs ==
    { << <<10, 0, 0, 10>>,  <<10, 0, 0, 100>>, <<10, 0, 0, 102>> >>,
      << <<10, 0, 0, 101>>, <<10, 0, 0, 100>>, <<10, 0, 0, 102>> >> }

\* Values of the requested-address option (50) of an inbound packet; Nil
\* when the option is absent.  10.0.0.103 is outside every pool.
RequestedIPs ==
    { Nil, <<10, 0, 0, 100>>, <<10, 0, 0, 101>>, <<10, 0, 0, 102>>,
      <<10, 0, 0, 103>> }

\* Values of the server-identifier option (54); Nil when absent.  Under each
\* configuration one of the two addresses is this server and the other is
\* another DHCP server on the segment.
ServerIDs == { Nil, <<10, 0, 0, 10>>, <<10, 0, 0, 101>> }

ZeroIP == <<0, 0, 0, 0>>

\* Inbound packets: DISCOVER, REQUEST, RELEASE, and INFORM standing for every
\* other message type.
Packets ==
    [ MessageType : {"DISCOVER", "RELEASE", "INFORM"}, ClientHWAddr : Clients,
      RequestedIP : {Nil}, ServerID : {Nil}, ClientIPAddr : {ZeroIP} ]
    \cup
    [ MessageType : {"REQUEST"}, ClientHWAddr : Clients,
      RequestedIP : RequestedIPs, ServerID : ServerIDs,
      ClientIPAddr : {ZeroIP} ]
    \cup
    [ MessageType : {"REQUEST"}, ClientHWAddr : Clients,
      RequestedIP : {Nil}, ServerID : ServerIDs,
      ClientIPAddr : {<<10, 0, 0, 100>>} ]

NoPacket ==
    [ MessageType |-> "NONE", ClientHWAddr |-> "", RequestedIP |-> Nil,
      ServerID |-> Nil, ClientIPAddr |-> ZeroIP ]

VARIABLES
    serverIP,   \* DHCPServer.serverIP
    ipPool,     \* DHCPServer.ipPool: sequence of addresses
    leases,     \* DHCPServer.leases: map from MAC string to Lease
    now,        \* time.Now(), in ticks
    pkt,        \* the packet being handled (NoPacket: the server is idle)
    before,     \* DHCPServer.leases as the running handler found it
    out,        \* the datagrams the running handler wrote to conn
    watch,      \* a client's outstanding offer: [mac, ip], or NoWatch
    scen        \* progress along the scenario of spec section 8

\* The loop of NewDHCPServer that fills ipPool from ip up to endIP.
RECURSIVE poolLoop_KeepServer(_, _, _, _)
poolLoop_KeepServer(ip, endIP, srvIP, pool) ==
    IF bytesCompare(To4(ip), To4(endIP)) <= 0
    THEN poolLoop_KeepServer(nextIP(ip), endIP, srvIP, Append(pool, ip))
    ELSE pool

RECURSIVE poolLoop(_, _, _, _)
poolLoop(ip, endIP, srvIP, pool) ==
    IF bytesCompare(To4(ip), To4(endIP)) <= 0
    THEN poolLoop(nextIP(ip), endIP, srvIP,
                  IF ~IPEqual(ip, srvIP) THEN Append(pool, ip) ELSE pool)
    ELSE pool

\* NewDHCPServer: the fields of the server it returns.
NewDHCPServer(serverIPStr, ipPoolStartStr, ipPoolEndStr) ==
    LET srvIP   == ParseIP(serverIPStr)
        startIP == ParseIP(ipPoolStartStr)
        endIP   == ParseIP(ipPoolEndStr)
    IN  [ serverIP |-> srvIP,
          ipPool   |-> poolLoop(startIP, endIP, srvIP, <<>>),
          leases   |-> [m \in {} |-> Nil] ]

\* isIPAvailable without the test of the expiry.
isIPAvailable_IgnoreExpiry(ip) ==
    \A m \in DOMAIN leases : ~IPEqual(leases[m].IP, ip)

isIPAvailable(ip) ==
    \A m \in DOMAIN leases :
        ~(IPEqual(leases[m].IP, ip) /\ leases[m].ExpiryTime > now)

isIPInPool(ip) ==
    \E i \in 1..Len(ipPool) : IPEqual(ipPool[i], ip)

\* A scan of the pool from its end.
RECURSIVE findAvailableIPDown(_)
findAvailableIPDown(i) ==
    IF i < 1 THEN Nil
    ELSE IF isIPAvailable(ipPool[i]) THEN ipPool[i]
    ELSE findAvailableIPDown(i - 1)

findAvailableIP_FromEnd == findAvailableIPDown(Len(ipPool))

RECURSIVE findAvailableIPFrom(_)
findAvailableIPFrom(i) ==
    IF i > Len(ipPool) THEN Nil
    ELSE IF isIPAvailable(ipPool[i]) THEN ipPool[i]
    ELSE findAvailableIPFrom(i + 1)

findAvailableIP == findAvailableIPFrom(1)

\* The datagram a send function writes: the reply as serialised by ToBytes,
\* which puts the 4-byte form of yiaddr on the wire.  NewReplyFromRequest and
\* conn.WriteTo are taken to succeed.
Reply(type, ip, p) ==
    [ MessageType |-> type, YourIP |-> To4(ip), ServerIP |-> To4(serverIP),
      To |-> p.ClientHWAddr ]

sendOffer(p, ip) == out' = <<Reply("OFFER", ip, p)>>

sendAck(p, ip) == out' = <<Reply("ACK", ip, p)>>

sendNak(p) == out' = <<Reply("NAK", ZeroIP, p)>>

\* handleDiscover answering NAK when the pool has no free address.
handleDiscover_NakOnExhaustion(p, macStr) ==
    IF macStr \in DOMAIN leases /\ leases[macStr].ExpiryTime > now
    THEN sendOffer(p, leases[macStr].IP) /\ UNCHANGED leases
    ELSE LET ip == findAvailableIP
         IN  IF ip = Nil
             THEN sendNak(p) /\ UNCHANGED leases
             ELSE sendOffer(p, ip) /\ UNCHANGED leases

handleDiscover(p, macStr) ==
    IF macStr \in DOMAIN leases /\ leases[macStr].ExpiryTime > now
    THEN sendOffer(p, leases[macStr].IP) /\ UNCHANGED leases
    ELSE LET ip == findAvailableIP
         IN  IF ip = Nil
             THEN out' = <<>> /\ UNCHANGED leases
             ELSE sendOffer(p, ip) /\ UNCHANGED leases

\* handleRequest with the renewal made on a copy of the lease, so that the
\* table keeps the old expiry.
handleRequest_RenewCopy(p, macStr) ==
    LET requestedIP == p.RequestedIP
    IN  IF ~isIPInPool(requestedIP)
        THEN sendNak(p) /\ UNCHANGED leases
        ELSE IF macStr \in DOMAIN leases /\ IPEqual(leases[macStr].IP, requestedIP)
        THEN /\ UNCHANGED leases
             /\ sendAck(p, requestedIP)
        ELSE IF isIPAvailable(requestedIP)
        THEN /\ leases' = (macStr :> [ IP         |-> requestedIP,
                                       MAC        |-> p.ClientHWAddr,
                                       ExpiryTime |-> now + leaseDuration ])
                           @@ leases
             /\ sendAck(p, requestedIP)
        ELSE sendNak(p) /\ UNCHANGED leases

\* handleRequest writing a new lease only for a client that has none, so that
\* a client ACKed for another address keeps its old entry.
handleRequest_KeepOld(p, macStr) ==
    LET requestedIP == p.RequestedIP
    IN  IF ~isIPInPool(requestedIP)
        THEN sendNak(p) /\ UNCHANGED leases
        ELSE IF macStr \in DOMAIN leases /\ IPEqual(leases[macStr].IP, requestedIP)
        THEN /\ leases' = [leases EXCEPT ![macStr].ExpiryTime = now + leaseDuration]
             /\ sendAck(p, requestedIP)
        ELSE IF isIPAvailable(requestedIP)
        THEN /\ leases' = IF macStr \in DOMAIN leases THEN leases
                          ELSE (macStr :> [ IP         |-> requestedIP,
                                            MAC        |-> p.ClientHWAddr,
                                            ExpiryTime |-> now + leaseDuration ])
                               @@ leases
             /\ sendAck(p, requestedIP)
        ELSE sendNak(p) /\ UNCHANGED leases

handleRequest(p, macStr) ==
    LET requestedIP == p.RequestedIP
    IN  IF ~isIPInPool(requestedIP)
        THEN sendNak(p) /\ UNCHANGED leases
        ELSE IF macStr \in DOMAIN leases /\ IPEqual(leases[macStr].IP, requestedIP)
        THEN /\ leases' = [leases EXCEPT ![macStr].ExpiryTime = now + leaseDuration]
             /\ sendAck(p, requestedIP)
        ELSE IF isIPAvailable(requestedIP)
        THEN /\ leases' = (macStr :> [ IP         |-> requestedIP,
                                       MAC        |-> p.ClientHWAddr,
                                       ExpiryTime |-> now + leaseDuration ])
                           @@ leases
             /\ sendAck(p, requestedIP)
        ELSE sendNak(p) /\ UNCHANGED leases

\* handleRelease confirming the release with an ACK.
handleRelease_Ack(p, macStr) ==
    /\ leases' = IF macStr \in DOMAIN leases
                 THEN [m \in DOMAIN leases \ {macStr} |-> leases[m]]
                 ELSE leases
    /\ sendAck(p, ZeroIP)

handleRelease(p, macStr) ==
    /\ leases' = IF macStr \in DOMAIN leases
                 THEN [m \in DOMAIN leases \ {macStr} |-> leases[m]]
                 ELSE leases
    /\ out' = <<>>

\* handleDHCPRequest: one inbound packet, handled with s.mu held throughout.
\* Every time.Now() of one call reads the same instant, now.
handleDHCPRequest(p) ==
    LET macStr == p.ClientHWAddr
    IN  CASE p.MessageType = "DISCOVER" -> handleDiscover(p, macStr)
          [] p.MessageType = "REQUEST"  -> handleRequest(p, macStr)
          [] p.MessageType = "RELEASE"  -> handleRelease(p, macStr)
          [] OTHER                      -> out' = <<>> /\ UNCHANGED leases

NoWatch == [mac |-> "", ip |-> Nil]

\* The offer being watched: the first client that is sent an OFFER while no
\* offer is watched, until that client sends a REQUEST; a later OFFER to the
\* same client replaces the address.
Watch(p) ==
    IF p.MessageType = "DISCOVER" /\ out' # <<>>
       /\ watch.mac \in {"", p.ClientHWAddr}
    THEN [mac |-> p.ClientHWAddr, ip |-> out'[1].YourIP]
    ELSE IF p.MessageType = "REQUEST" /\ watch.mac = p.ClientHWAddr
    THEN NoWatch
    ELSE watch

\* The scenario of spec section 8, from a freshly started server: A DISCOVER,
\* A REQUEST(10.0.0.100), B DISCOVER, A RELEASE, C DISCOVER.  scen counts the
\* steps taken along it and is -1 once the run has left it.
Scenario(p) ==
    LET t == p.MessageType
        c == p.ClientHWAddr
    IN  IF scen = 0 /\ t = "DISCOVER" /\ c = "A" THEN 1
        ELSE IF scen = 1 /\ t = "REQUEST" /\ c = "A"
                /\ p.RequestedIP = <<10, 0, 0, 100>> THEN 2
        ELSE IF scen = 2 /\ t = "DISCOVER" /\ c = "B" THEN 3
        ELSE IF scen = 3 /\ t = "RELEASE" /\ c = "A" THEN 4
        ELSE IF scen = 4 /\ t = "DISCOVER" /\ c = "C" THEN 5
        ELSE -1

(***************************************************************************)
(* RogueDHCPHandler (src/unnamed/part_000)                                 *)
(***************************************************************************)
\* Go's integer division, which truncates toward zero.
GoDiv(a, b) == IF a >= 0 THEN a \div b ELSE -((-a) \div b)

\* dhcp4.IPRange: the number of addresses from start to stop, inclusive, as
\* the difference of the two big-endian 32-bit values plus one.
IPRange(start, stop) ==
    LET a == To4(start)
        b == To4(stop)
    IN  (((b[1] - a[1]) * 256 + (b[2] - a[2])) * 256 + (b[3] - a[3])) * 256
        + (b[4] - a[4]) + 1

\* dhcp4.IPAdd: start + add in 32-bit unsigned arithmetic, byte by byte from
\* the last with the carry c.
RECURSIVE ipAddFrom(_, _, _)
ipAddFrom(ip, j, c) ==
    IF j < 1 THEN ip
    ELSE LET v == ip[j] + c
         IN  ipAddFrom([ip EXCEPT ![j] = v % 256], j - 1, v \div 256)

IPAdd(start, add) == ipAddFrom(To4(start), 4, add)

\* The RogueConfig values the handler is built with: ServerIP, StartIP, EndIP.
\* The first is the one of main; the range of the second crosses an octet.
RogueConfigs ==
    { [ ServerIP |-> ParseIP(<<172, 16, 1, 100>>),
        StartIP  |-> ParseIP(<<172, 16, 1, 150>>),
        EndIP    |-> ParseIP(<<172, 16, 1, 200>>) ],
      [ ServerIP |-> ParseIP(<<172, 16, 1, 100>>),
        StartIP  |-> ParseIP(<<172, 16, 1, 250>>),
        EndIP    |-> ParseIP(<<172, 16, 2, 9>>) ] }

\* Inbound packets of the rogue handler.  The requested address is absent,
\* inside either range, or outside both; the server identifier is absent,
\* this server's, or another server's.
RoguePackets ==
    [ MessageType  : {"DISCOVER", "REQUEST", "RELEASE"},
      ClientHWAddr : Clients,
      RequestedIP  : { Nil, <<172, 16, 1, 175>>, <<172, 16, 2, 2>>,
                       <<192, 168, 1, 7>> },
      ServerID     : { Nil, <<172, 16, 1, 100>>, <<172, 16, 1, 1>> },
      ClientIPAddr : { ZeroIP, <<192, 168, 1, 7>> } ]

NoReply == [ MessageType |-> "NONE" ]

VARIABLES
    config,     \* RogueDHCPHandler.config
    leaseDB,    \* RogueDHCPHandler.leaseDB: map from MAC string to address
    rpkt,       \* the packet ServeDHCP is called with (NoPacket: idle)
    rbefore,    \* leaseDB as the running call found it
    reply       \* what the running call returns (NoReply: nil)

rogueVars == <<config, leaseDB, rpkt, rbefore, reply>>

\* The enumeration loop of NewDHCPServer taken one iteration at a time.
VARIABLES
    poolStart,  \* startIP of NewDHCPServer
    poolEnd,    \* endIP of NewDHCPServer
    loopIP,     \* the loop variable ip
    loopPC,     \* "idle", "loop" (in the for statement) or "done" (returned)
    loopIter    \* the number of iterations of the loop body so far

loopVars == <<poolStart, poolEnd, loopIP, loopPC, loopIter>>

\* The goroutines that server4 starts, one per inbound packet.
VARIABLES
    gpkt,       \* the packet each goroutine's handler was called with
    pc,         \* each goroutine's position in handleDHCPRequest
    mu,         \* DHCPServer.mu: the goroutine holding it, or NoGoroutine
    dec,        \* what each handler found when it read the lease table
    sent        \* the datagrams each handler has written to conn

concVars == <<gpkt, pc, mu, dec, sent>>

vars == <<serverIP, ipPool, leases, now, pkt, before, out, watch, scen,
          config, leaseDB, rpkt, rbefore, reply, loopVars, concVars>>

\* dhcp4.ReplyPacket: SetYIAddr copies the 4-byte form, so nil leaves zeros.
ReplyPacket(req, mt, serverId, yIAddr) ==
    [ MessageType |-> mt,
      ServerID    |-> To4(serverId),
      YourIP      |-> IF To4(yIAddr) = Nil THEN ZeroIP ELSE To4(yIAddr),
      To          |-> req.ClientHWAddr ]

\* ServeDHCP without the check of the server identifier.
ServeDHCP_NoServerIdCheck(req) ==
    LET clientMAC == req.ClientHWAddr
    IN  CASE req.MessageType = "DISCOVER" ->
               LET offeredIP ==
                     IPAdd(config.StartIP,
                           GoDiv(IPRange(config.StartIP, config.EndIP), 2))
               IN  /\ leaseDB' = (clientMAC :> offeredIP) @@ leaseDB
                   /\ reply' = ReplyPacket(req, "OFFER", config.ServerIP,
                                           offeredIP)
          [] req.MessageType = "REQUEST" ->
               LET requestedIP == IF req.RequestedIP = Nil
                                  THEN req.ClientIPAddr
                                  ELSE req.RequestedIP
                   ackIP == IF clientMAC \in DOMAIN leaseDB
                            THEN leaseDB[clientMAC]
                            ELSE requestedIP
               IN  /\ reply' = ReplyPacket(req, "ACK", config.ServerIP, ackIP)
                   /\ UNCHANGED leaseDB
          [] OTHER -> reply' = NoReply /\ UNCHANGED leaseDB

\* ServeDHCP: the call's effect on leaseDB and the packet it returns.
ServeDHCP(req) ==
    LET clientMAC == req.ClientHWAddr
    IN  CASE req.MessageType = "DISCOVER" ->
               LET offeredIP ==
                     IPAdd(config.StartIP,
                           GoDiv(IPRange(config.StartIP, config.EndIP), 2))
               IN  /\ leaseDB' = (clientMAC :> offeredIP) @@ leaseDB
                   /\ reply' = ReplyPacket(req, "OFFER", config.ServerIP,
                                           offeredIP)
          [] req.MessageType = "REQUEST" ->
               IF req.ServerID # Nil /\ ~IPEqual(req.ServerID, config.ServerIP)
               THEN reply' = NoReply /\ UNCHANGED leaseDB
               ELSE LET requestedIP == IF req.RequestedIP = Nil
                                       THEN req.ClientIPAddr
                                       ELSE req.RequestedIP
                        ackIP == IF clientMAC \in DOMAIN leaseDB
                                 THEN leaseDB[clientMAC]
                                 ELSE requestedIP
                    IN  /\ reply' = ReplyPacket(req, "ACK", config.ServerIP,
                                                ackIP)
                        /\ UNCHANGED leaseDB
          [] OTHER -> reply' = NoReply /\ UNCHANGED leaseDB

(***************************************************************************)
(* The server as a state machine                                           *)
(***************************************************************************)
\* NewDHCPServer has returned: no enumeration loop is running.
LoopIdle ==
    /\ poolStart = Nil
    /\ poolEnd = Nil
    /\ loopIP = Nil
    /\ loopPC = "idle"
    /\ loopIter = 0

Goroutines == {"g1", "g2"}

NoGoroutine == ""

\* No handler goroutine has been started.
ConcIdle ==
    /\ gpkt = [g \in Goroutines |-> NoPacket]
    /\ pc = [g \in Goroutines |-> "done"]
    /\ mu = NoGoroutine
    /\ dec = [g \in Goroutines |-> Nil]
    /\ sent = [g \in Goroutines |-> <<>>]

\* The server freshly constructed by main.
ServerInit ==
    /\ \E cfg \in ServerConfigs :
          LET s == NewDHCPServer(cfg[1], cfg[2], cfg[3])
          IN  /\ serverIP = s.serverIP
              /\ ipPool = s.ipPool
              /\ leases = s.leases
    /\ now = 0
    /\ pkt = NoPacket
    /\ before = leases
    /\ out = <<>>
    /\ watch = NoWatch
    /\ scen = 0
    /\ LoopIdle
    /\ ConcIdle

\* The rogue handler as main constructs it: an empty leaseDB.
RogueInit(cfgs) ==
    /\ config \in cfgs
    /\ leaseDB = [m \in {} |-> Nil]
    /\ rpkt = NoPacket
    /\ rbefore = leaseDB
    /\ reply = NoReply

Init == ServerInit /\ RogueInit({CHOOSE c \in RogueConfigs : TRUE})

\* The handler closure of main is called with one inbound packet; the state
\* reached is the one in which handleDHCPRequest is about to return.
Handle(p) ==
    /\ pkt = NoPacket
    /\ handleDHCPRequest(p)
    /\ pkt' = p
    /\ before' = leases
    /\ scen' = Scenario(p)
    /\ UNCHANGED <<serverIP, ipPool, now>>
    /\ UNCHANGED <<rogueVars, loopVars, concVars>>

Deliver(p) == Handle(p) /\ UNCHANGED watch

\* handleDHCPRequest returns: the mutex is released and the server waits for
\* the next packet.
Return ==
    /\ pkt # NoPacket
    /\ pkt' = NoPacket
    /\ before' = leases
    /\ out' = <<>>
    /\ UNCHANGED <<serverIP, ipPool, leases, now, watch, scen>>
    /\ UNCHANGED <<rogueVars, loopVars, concVars>>

\* The wall clock advances between two packets.
Tick ==
    /\ pkt = NoPacket
    /\ now < MaxTime
    /\ now' = now + 1
    /\ scen' = -1
    /\ UNCHANGED <<serverIP, ipPool, leases, pkt, before, out, watch>>
    /\ UNCHANGED <<rogueVars, loopVars, concVars>>

Next ==
    \/ \E p \in Packets : Deliver(p)
    \/ Return
    \/ Tick

Spec == Init /\ [][Next]_vars

(***************************************************************************)
(* The server with a client's outstanding offer watched                    *)
(***************************************************************************)
\* The packets that carry no server identifier and no client address.
PlainPackets ==
    { p \in Packets : p.ServerID = Nil /\ p.ClientIPAddr = ZeroIP }

DeliverWatched(p) == Handle(p) /\ watch' = Watch(p)

OfferNext ==
    \/ \E p \in PlainPackets : DeliverWatched(p)
    \/ Return
    \/ Tick

OfferSpec == Init /\ [][OfferNext]_vars

(***************************************************************************)
(* The rogue handler as a state machine                                    *)
(***************************************************************************)
RogueSpecInit ==
    /\ \E cfg \in {CHOOSE c \in ServerConfigs : TRUE} :
          LET s == NewDHCPServer(cfg[1], cfg[2], cfg[3])
          IN  /\ serverIP = s.serverIP
              /\ ipPool = s.ipPool
              /\ leases = s.leases
    /\ now = 0
    /\ pkt = NoPacket
    /\ before = leases
    /\ out = <<>>
    /\ watch = NoWatch
    /\ scen = 0
    /\ LoopIdle
    /\ ConcIdle
    /\ RogueInit(RogueConfigs)

\* dhcp4.Serve calls ServeDHCP with one inbound packet; the state reached is
\* the one in which the call returns its reply.
RogueDeliver(p) ==
    /\ rpkt = NoPacket
    /\ ServeDHCP(p)
    /\ rpkt' = p
    /\ rbefore' = leaseDB
    /\ UNCHANGED config
    /\ UNCHANGED <<serverIP, ipPool, leases, now, pkt, before, out, watch, scen>>
    /\ UNCHANGED <<loopVars, concVars>>

\* dhcp4.Serve has sent the reply, if any, and reads the next packet.
RogueReturn ==
    /\ rpkt # NoPacket
    /\ rpkt' = NoPacket
    /\ rbefore' = leaseDB
    /\ reply' = NoReply
    /\ UNCHANGED <<config, leaseDB>>
    /\ UNCHANGED <<serverIP, ipPool, leases, now, pkt, before, out, watch, scen>>
    /\ UNCHANGED <<loopVars, concVars>>

RogueNext ==
    \/ \E p \in RoguePackets : RogueDeliver(p)
    \/ RogueReturn

RogueSpec == RogueSpecInit /\ [][RogueNext]_vars

(***************************************************************************)
(* NewDHCPServer with its enumeration loop taken step by step              *)
(***************************************************************************)
\* The longest run of the loop body that is followed.
MaxIter == 8

\* Parsed start and end addresses: a range that crosses an octet, the top of
\* the IPv4 space, and IPv6 addresses (2001:db8::1 and 2001:db8::2).
LowAddresses ==
    { ParseIP(q) : q \in { <<10, 0, 0, 254>>, <<10, 0, 0, 255>>,
                           <<10, 0, 1, 0>>, <<10, 0, 1, 1>> } }

HighAddresses ==
    { ParseIP(<<255, 255, 255, d>>) : d \in {253, 254, 255} }

V6Addresses ==
    { <<32, 1, 13, 184, 0, 0, 0, 0, 0, 0, 0, 0, 0, 0, 0, d>> : d \in {1, 2} }

\* The arguments of NewDHCPServer as parsed: <<serverIP, startIP, endIP>>.
PoolArgs ==
    { ParseIP(<<10, 0, 0, 255>>), ParseIP(<<10, 0, 1, 9>>),
      ParseIP(<<255, 255, 255, 254>>) }
    \X ( (LowAddresses \X LowAddresses) \cup (HighAddresses \X HighAddresses)
         \cup (V6Addresses \X V6Addresses) )

\* NewDHCPServer has parsed its arguments and enters the for statement.
PoolInit ==
    /\ \E a \in PoolArgs :
          /\ serverIP = a[1]
          /\ poolStart = a[2][1]
          /\ poolEnd = a[2][2]
    /\ loopIP = poolStart
    /\ loopPC = "loop"
    /\ loopIter = 0
    /\ ipPool = <<>>
    /\ leases = [m \in {} |-> Nil]
    /\ now = 0
    /\ pkt = NoPacket
    /\ before = leases
    /\ out = <<>>
    /\ watch = NoWatch
    /\ scen = 0
    /\ ConcIdle
    /\ RogueInit({CHOOSE c \in RogueConfigs : TRUE})

\* The condition of the for statement.
LoopCond == bytesCompare(To4(loopIP), To4(poolEnd)) <= 0

\* One iteration: the body, then ip = nextIP(ip).
LoopBody ==
    /\ loopPC = "loop"
    /\ LoopCond
    /\ loopIter < MaxIter
    /\ ipPool' = IF ~IPEqual(loopIP, serverIP) THEN Append(ipPool, loopIP)
                 ELSE ipPool
    /\ loopIP' = nextIP(loopIP)
    /\ loopIter' = loopIter + 1
    /\ UNCHANGED <<poolStart, poolEnd, loopPC>>
    /\ UNCHANGED <<serverIP, leases, now, pkt, before, out, watch, scen>>
    /\ UNCHANGED <<rogueVars, concVars>>

\* The condition is false: NewDHCPServer returns the server.
LoopExit ==
    /\ loopPC = "loop"
    /\ ~LoopCond
    /\ loopPC' = "done"
    /\ UNCHANGED <<poolStart, poolEnd, loopIP, loopIter>>
    /\ UNCHANGED <<serverIP, ipPool, leases, now, pkt, before, out, watch, scen>>
    /\ UNCHANGED <<rogueVars, concVars>>

PoolNext == LoopBody \/ LoopExit

PoolSpec == PoolInit /\ [][PoolNext]_vars

(***************************************************************************)
(* handleDHCPRequest run by concurrent goroutines                          *)
(***************************************************************************)
\* isIPAvailable and findAvailableIP reading the lease table t.
isIPAvailableIn(t, ip) ==
    \A m \in DOMAIN t : ~(IPEqual(t[m].IP, ip) /\ t[m].ExpiryTime > now)

RECURSIVE findAvailableIPInFrom(_, _)
findAvailableIPInFrom(t, i) ==
    IF i > Len(ipPool) THEN Nil
    ELSE IF isIPAvailableIn(t, ipPool[i]) THEN ipPool[i]
    ELSE findAvailableIPInFrom(t, i + 1)

findAvailableIPIn(t) == findAvailableIPInFrom(t, 1)

\* The branch a handler takes for packet p on reading the lease table t, and
\* the address it has settled on.
Found(t, p) ==
    LET macStr == p.ClientHWAddr
        requestedIP == p.RequestedIP
    IN  CASE p.MessageType = "DISCOVER" ->
               IF macStr \in DOMAIN t /\ t[macStr].ExpiryTime > now
               THEN [branch |-> "offer", ip |-> t[macStr].IP]
               ELSE LET ip == findAvailableIPIn(t)
                    IN  IF ip = Nil THEN [branch |-> "none", ip |-> Nil]
                        ELSE [branch |-> "offer", ip |-> ip]
          [] p.MessageType = "REQUEST" ->
               IF ~isIPInPool(requestedIP)
               THEN [branch |-> "nak", ip |-> Nil]
               ELSE IF macStr \in DOMAIN t /\ IPEqual(t[macStr].IP, requestedIP)
               THEN [branch |-> "renew", ip |-> requestedIP]
               ELSE IF isIPAvailableIn(t, requestedIP)
               THEN [branch |-> "new", ip |-> requestedIP]
               ELSE [branch |-> "nak", ip |-> Nil]
          [] p.MessageType = "RELEASE" ->
               IF macStr \in DOMAIN t THEN [branch |-> "release", ip |-> Nil]
               ELSE [branch |-> "none", ip |-> Nil]
          [] OTHER -> [branch |-> "none", ip |-> Nil]

\* The lease table after the write of branch d, made on table t.  A renewal
\* writes through the pointer it read; if the entry is gone the table is
\* left as it is.
Written(t, p, d) ==
    LET macStr == p.ClientHWAddr
    IN  CASE d.branch = "renew" ->
               IF macStr \in DOMAIN t
               THEN [t EXCEPT ![macStr].ExpiryTime = now + leaseDuration]
               ELSE t
          [] d.branch = "new" ->
               (macStr :> [ IP         |-> d.ip,
                            MAC        |-> p.ClientHWAddr,
                            ExpiryTime |-> now + leaseDuration ]) @@ t
          [] d.branch = "release" ->
               [m \in DOMAIN t \ {macStr} |-> t[m]]
          [] OTHER -> t

\* The datagrams branch d writes to conn.
Datagrams(p, d) ==
    CASE d.branch = "offer" -> <<Reply("OFFER", d.ip, p)>>
      [] d.branch \in {"renew", "new"} -> <<Reply("ACK", d.ip, p)>>
      [] d.branch = "nak" -> <<Reply("NAK", ZeroIP, p)>>
      [] OTHER -> <<>>

\* handleDHCPRequest for packet p run alone on the lease table t.
Served(t, p) ==
    LET d == Found(t, p)
    IN  [leases |-> Written(t, p, d), out |-> Datagrams(p, d)]

\* The packets of a burst: two clients, two pool addresses and one outside.
ConcPackets ==
    { p \in Packets :
        /\ p.ClientHWAddr \in {"A", "B"}
        /\ p.ServerID = Nil /\ p.ClientIPAddr = ZeroIP
        /\ p.RequestedIP \in { Nil, <<10, 0, 0, 100>>, <<10, 0, 0, 101>>,
                               <<10, 0, 0, 103>> } }

\* Lease tables the server can hold when the burst arrives.
ConcTables ==
    LET l(m, d) == [IP |-> <<10, 0, 0, d>>, MAC |-> m, ExpiryTime |-> 2]
    IN  { [m \in {} |-> Nil],
          [m \in {"A"} |-> l("A", 100)],
          [m \in {"A", "B"} |-> IF m = "A" THEN l("A", 100) ELSE l("B", 101)] }

\* server.Serve has read one packet per goroutine and started the handlers.
ConcInit ==
    /\ \E cfg \in {CHOOSE c \in ServerConfigs : c[1] = <<10, 0, 0, 10>>} :
          LET s == NewDHCPServer(cfg[1], cfg[2], cfg[3])
          IN  /\ serverIP = s.serverIP
              /\ ipPool = s.ipPool
    /\ leases \in ConcTables
    /\ now \in {0, 2}
    /\ pkt = NoPacket
    /\ before = leases
    /\ out = <<>>
    /\ watch = NoWatch
    /\ scen = 0
    /\ gpkt \in [Goroutines -> ConcPackets]
    /\ pc = [g \in Goroutines |-> "start"]
    /\ mu = NoGoroutine
    /\ dec = [g \in Goroutines |-> Nil]
    /\ sent = [g \in Goroutines |-> <<>>]
    /\ LoopIdle
    /\ RogueInit({CHOOSE c \in RogueConfigs : TRUE})

\* What no step of a goroutine changes.
ConcFrame ==
    UNCHANGED <<serverIP, ipPool, now, pkt, before, out, watch, scen, gpkt,
                rogueVars, loopVars>>

\* s.mu.Lock() taking the mutex whether or not it is free.
Lock_NoWait(g) ==
    /\ pc[g] = "start"
    /\ mu' = g
    /\ pc' = [pc EXCEPT ![g] = "locked"]
    /\ UNCHANGED <<leases, dec, sent>>
    /\ ConcFrame

\* s.mu.Lock(): the goroutine waits until the mutex is free and takes it.
Lock(g) ==
    /\ pc[g] = "start"
    /\ mu = NoGoroutine
    /\ mu' = g
    /\ pc' = [pc EXCEPT ![g] = "locked"]
    /\ UNCHANGED <<leases, dec, sent>>
    /\ ConcFrame

\* The handler's lookups and availability check on the lease table.
ReadTable(g) ==
    /\ pc[g] = "locked"
    /\ dec' = [dec EXCEPT ![g] = Found(leases, gpkt[g])]
    /\ pc' = [pc EXCEPT ![g] = "read"]
    /\ UNCHANGED <<leases, mu, sent>>
    /\ ConcFrame

\* The handler's write to the lease table, if its branch has one.
WriteTable(g) ==
    /\ pc[g] = "read"
    /\ leases' = Written(leases, gpkt[g], dec[g])
    /\ pc' = [pc EXCEPT ![g] = "written"]
    /\ UNCHANGED <<mu, dec, sent>>
    /\ ConcFrame

\* sendOffer, sendAck or sendNak, called by the handler before it returns:
\* conn.WriteTo puts the reply on the wire.
Send(g) ==
    /\ pc[g] = "written"
    /\ sent' = [sent EXCEPT ![g] = Datagrams(gpkt[g], dec[g])]
    /\ pc' = [pc EXCEPT ![g] = "sent"]
    /\ UNCHANGED <<leases, mu, dec>>
    /\ ConcFrame

\* handleDHCPRequest returns and the deferred s.mu.Unlock() runs.
Unlock(g) ==
    /\ pc[g] = "sent"
    /\ mu' = NoGoroutine
    /\ pc' = [pc EXCEPT ![g] = "done"]
    /\ UNCHANGED <<leases, dec, sent>>
    /\ ConcFrame

GoStep(g) ==
    \/ Lock(g)
    \/ ReadTable(g)
    \/ WriteTable(g)
    \/ Send(g)
    \/ Unlock(g)

ConcNext == \E g \in Goroutines : GoStep(g)

\* Every goroutine that can take a step is scheduled in the end, and a
\* goroutine waiting for the mutex gets it once it stays free.
ConcSpec ==
    ConcInit /\ [][ConcNext]_vars /\ \A g \in Goroutines : WF_vars(GoStep(g))

(***************************************************************************)
(* Properties                                                              *)
(***************************************************************************)
\* The value of an IPv4 address as a number (big endian).
Uint32(ip) ==
    LET q == To4(ip)
    IN  ((q[1] * 256 + q[2]) * 256 + q[3]) * 256 + q[4]

\* Client m holds, in lease table t, an unexpired lease for address ip.
Holds(t, m, ip) ==
    m \in DOMAIN t /\ To4(t[m].IP) = To4(ip) /\ t[m].ExpiryTime > now

InPool(ip) == \E i \in DOMAIN ipPool : To4(ipPool[i]) = To4(ip) /\ To4(ip) # Nil

\* Every lease of a client other than m is the same in tables t and u.
OthersUnchanged(t, u, m) ==
    \A d \in Clients \ {m} :
        /\ d \in DOMAIN t <=> d \in DOMAIN u
        /\ d \in DOMAIN t => t[d] = u[d]

\* C1 (mutual exclusion): no two distinct clients have leases in the table
\* with the same IP and both ExpiryTime > now.
MutualExclusion ==
    \A c1 \in DOMAIN leases : \A c2 \in DOMAIN leases :
        (c1 # c2 /\ leases[c1].ExpiryTime > now /\ leases[c2].ExpiryTime > now)
            => To4(leases[c1].IP) # To4(leases[c2].IP)

\* C2 (pool containment): every lease in the table has an IP that is a member
\* of ipPool and differs from serverIP.
PoolContainment ==
    \A c \in DOMAIN leases :
        InPool(leases[c].IP) /\ To4(leases[c].IP) # To4(serverIP)

\* C2 witness: with the server's address inside the configured range, a
\* client holds a lease and a REQUEST for the server's own address is refused.
PoolContainmentWitness ==
    /\ pkt.MessageType = "REQUEST"
    /\ To4(pkt.RequestedIP) = To4(serverIP)
    /\ To4(serverIP) = <<10, 0, 0, 101>>
    /\ out # <<>> /\ out[1].MessageType = "NAK"
    /\ DOMAIN leases # {}

\* C3 (offer idempotence): a client that was offered address a and sends
\* DISCOVER again without a REQUEST of its own in between is offered a again.
OfferIdempotence ==
    [][ ( /\ watch # NoWatch
          /\ pkt'.MessageType = "DISCOVER"
          /\ pkt'.ClientHWAddr = watch.mac
          /\ out' # <<>> )
        => out'[1].YourIP = watch.ip ]_vars

\* C4 (renewal): a REQUEST for the address of the lease the client already
\* has, expired or not, is answered with ACK for it, sets the lease's expiry
\* to now + leaseDuration, keeps its IP and changes no other client's lease.
Renewal ==
    LET m == pkt.ClientHWAddr
    IN  ( /\ pkt.MessageType = "REQUEST"
          /\ m \in DOMAIN before
          /\ To4(before[m].IP) = To4(pkt.RequestedIP) )
        => /\ out = << [ MessageType |-> "ACK",
                         YourIP      |-> To4(pkt.RequestedIP),
                         ServerIP    |-> To4(serverIP),
                         To          |-> m ] >>
           /\ m \in DOMAIN leases
           /\ leases[m].ExpiryTime = now + leaseDuration
           /\ leases[m].IP = before[m].IP
           /\ OthersUnchanged(before, leases, m)

\* C4 witness: a client renews a lease that had already expired.
RenewalWitness ==
    LET m == pkt.ClientHWAddr
    IN  /\ pkt.MessageType = "REQUEST"
        /\ m \in DOMAIN before
        /\ To4(before[m].IP) = To4(pkt.RequestedIP)
        /\ before[m].ExpiryTime <= now
        /\ out # <<>> /\ out[1].MessageType = "ACK"
        /\ leases[m].ExpiryTime = now + leaseDuration

\* C5 (release frees immediately): after a RELEASE from a client that holds
\* an unexpired lease for a, the client has no lease and isIPAvailable(a).
ReleaseFreesImmediately ==
    LET m == pkt.ClientHWAddr
    IN  ( /\ pkt.MessageType = "RELEASE"
          /\ m \in DOMAIN before
          /\ before[m].ExpiryTime > now )
        => /\ m \notin DOMAIN leases
           /\ isIPAvailable(before[m].IP)

\* C6 (rejection leaves state untouched): a REQUEST for an address that is not
\* in the pool, or that an unexpired lease of a different client holds, is
\* answered with NAK and leaves the lease table as it was.
RejectionLeavesTableUntouched ==
    LET m == pkt.ClientHWAddr
    IN  ( /\ pkt.MessageType = "REQUEST"
          /\ \/ ~InPool(pkt.RequestedIP)
             \/ \E d \in Clients \ {m} : Holds(before, d, pkt.RequestedIP) )
        => /\ Len(out) = 1 /\ out[1].MessageType = "NAK"
           /\ leases = before

\* C7 (DISCOVER records the offer): when a DISCOVER from a client with no
\* unexpired lease is answered with an OFFER for a, the table afterwards maps
\* the client to a lease with ip = a and expiry = now + leaseDuration.
DiscoverRecordsOffer ==
    LET m == pkt.ClientHWAddr
    IN  ( /\ pkt.MessageType = "DISCOVER"
          /\ ~(m \in DOMAIN before /\ before[m].ExpiryTime > now)
          /\ out # <<>> /\ out[1].MessageType = "OFFER" )
        => /\ m \in DOMAIN leases
           /\ To4(leases[m].IP) = out[1].YourIP
           /\ leases[m].ExpiryTime = now + leaseDuration

\* C8 (server-identifier check): a REQUEST that carries a server identifier
\* different from the server's address gets no reply, neither ACK nor NAK,
\* and leaves the lease table unchanged.
ServerIdentifierCheck ==
    ( /\ pkt.MessageType = "REQUEST"
      /\ pkt.ServerID # Nil
      /\ To4(pkt.ServerID) # To4(serverIP) )
    => out = <<>> /\ leases = before

\* C9 (server-identifier check of the rogue handler): a REQUEST whose server
\* identifier is present and differs from config.ServerIP returns no reply
\* and leaves leaseDB unchanged; a REQUEST that yields an ACK has the server
\* identifier absent or equal to config.ServerIP.
RogueServerIdentifierCheck ==
    LET foreign == rpkt.ServerID # Nil
                   /\ To4(rpkt.ServerID) # To4(config.ServerIP)
    IN  /\ (rpkt.MessageType = "REQUEST" /\ foreign)
            => (reply = NoReply /\ leaseDB = rbefore)
        /\ (rpkt.MessageType = "REQUEST" /\ reply.MessageType = "ACK")
            => ~foreign
        /\ reply.MessageType = "ACK" => rpkt.MessageType = "REQUEST"

\* C9 witness: a client that was made an offer confirms with another server
\* and the handler stays silent.
RogueServerIdentifierWitness ==
    /\ rpkt.MessageType = "REQUEST"
    /\ rpkt.ServerID = <<172, 16, 1, 1>>
    /\ rpkt.ClientHWAddr \in DOMAIN leaseDB
    /\ leaseDB[rpkt.ClientHWAddr] = <<172, 16, 2, 2>>
    /\ reply = NoReply

\* The pool positions whose address no unexpired lease of table t holds.
FreeIn(t) ==
    { i \in DOMAIN ipPool : \A m \in Clients : ~Holds(t, m, ipPool[i]) }

OfferOf(ip, m) ==
    << [ MessageType |-> "OFFER", YourIP |-> To4(ip),
         ServerIP |-> To4(serverIP), To |-> m ] >>

\* C10 (first-free ascending allocation): a DISCOVER from a client with no
\* unexpired lease is offered the lowest-numbered pool address that no
\* unexpired lease holds; and with pool {100, 101, 102}, A DISCOVER then
\* A REQUEST(100) gives ACK, B DISCOVER is offered 101, and after A RELEASE a
\* DISCOVER by C is offered 100.
FirstFreeAllocation ==
    LET m == pkt.ClientHWAddr
        free == FreeIn(before)
    IN  /\ ( /\ pkt.MessageType = "DISCOVER"
              /\ ~(m \in DOMAIN before /\ before[m].ExpiryTime > now)
              /\ free # {} )
            => \E i \in free :
                  /\ out = OfferOf(ipPool[i], m)
                  /\ \A j \in free : Uint32(ipPool[i]) <= Uint32(ipPool[j])
        /\ (pkt # NoPacket /\ Len(ipPool) = 3) =>
              /\ scen = 1 => out = OfferOf(<<10, 0, 0, 100>>, "A")
              /\ scen = 2 => /\ Len(out) = 1
                             /\ out[1].MessageType = "ACK"
                             /\ out[1].YourIP = <<10, 0, 0, 100>>
              /\ scen = 3 => out = OfferOf(<<10, 0, 0, 101>>, "B")
              /\ scen = 4 => out = <<>> /\ isIPAvailable(<<10, 0, 0, 100>>)
              /\ scen = 5 => out = OfferOf(<<10, 0, 0, 100>>, "C")

\* C10 witness: the scenario has run to its end, and C is offered 10.0.0.100
\* while B's offer was 10.0.0.101.
FirstFreeWitness ==
    /\ scen = 5
    /\ Len(ipPool) = 3
    /\ pkt.MessageType = "DISCOVER" /\ pkt.ClientHWAddr = "C"
    /\ out = OfferOf(<<10, 0, 0, 100>>, "C")

\* C10 witness of the general case: an address other than the first of the
\* pool is offered because unexpired leases hold the ones below it.
FirstFreeSkipsHeld ==
    /\ pkt.MessageType = "DISCOVER"
    /\ pkt.ClientHWAddr \notin DOMAIN before
    /\ 1 \notin FreeIn(before) /\ 2 \notin FreeIn(before)
    /\ out = OfferOf(ipPool[3], pkt.ClientHWAddr)

\* C11 (pool exhaustion): when every pool address is held by an unexpired
\* lease of some other client, a DISCOVER from a client with no unexpired
\* lease produces no outbound message and leaves the lease table unchanged.
PoolExhaustion ==
    LET m == pkt.ClientHWAddr
    IN  ( /\ pkt.MessageType = "DISCOVER"
          /\ ~(m \in DOMAIN before /\ before[m].ExpiryTime > now)
          /\ \A i \in DOMAIN ipPool :
                \E d \in Clients \ {m} : Holds(before, d, ipPool[i]) )
        => out = <<>> /\ leases = before

\* C11 witness: both addresses of the two-address pool are leased, to two
\* different clients, and a third client's DISCOVER goes unanswered.
PoolExhaustionWitness ==
    LET m == pkt.ClientHWAddr
    IN  /\ pkt.MessageType = "DISCOVER"
        /\ m \notin DOMAIN before
        /\ Len(ipPool) = 2
        /\ \E d1 \in Clients \ {m} : \E d2 \in Clients \ {m, d1} :
              Holds(before, d1, ipPool[1]) /\ Holds(before, d2, ipPool[2])
        /\ out = <<>>

\* C12 (requested-address fallback): a REQUEST without the requested-address
\* option is handled with the client's own address field (ciaddr) as the
\* requested address, so a client renewing its in-pool lease by that field
\* alone receives ACK and has its expiry extended.
RequestedAddressFallback ==
    LET m == pkt.ClientHWAddr
    IN  ( /\ pkt.MessageType = "REQUEST"
          /\ pkt.RequestedIP = Nil
          /\ m \in DOMAIN before
          /\ To4(before[m].IP) = pkt.ClientIPAddr )
        => /\ Len(out) = 1 /\ out[1].MessageType = "ACK"
           /\ m \in DOMAIN leases
           /\ leases[m].ExpiryTime = now + leaseDuration

\* C13 (reply discipline): every inbound message yields at most one outbound
\* message; RELEASE and every type other than DISCOVER and REQUEST yield none;
\* a type other than DISCOVER, REQUEST and RELEASE leaves the table unchanged.
ReplyDiscipline ==
    /\ Len(out) <= 1
    /\ pkt.MessageType \notin {"DISCOVER", "REQUEST"} => out = <<>>
    /\ pkt.MessageType \notin {"DISCOVER", "REQUEST", "RELEASE"}
          => leases = before

\* C13 witness: a RELEASE removes the sender's lease without any reply, and
\* (second disjunct) an INFORM from a lease holder changes nothing.
ReplyDisciplineWitness ==
    /\ pkt.MessageType = "RELEASE"
    /\ pkt.ClientHWAddr \in DOMAIN before
    /\ pkt.ClientHWAddr \notin DOMAIN leases
    /\ out = <<>>

ReplyDisciplineOtherWitness ==
    /\ pkt.MessageType = "INFORM"
    /\ pkt.ClientHWAddr \in DOMAIN before
    /\ out = <<>> /\ leases = before

\* The REQUEST being handled is ACKed for an address y while the client's
\* entry in the table was for a different address x.
Superseding ==
    LET m == pkt.ClientHWAddr
    IN  /\ pkt.MessageType = "REQUEST"
        /\ m \in DOMAIN before
        /\ To4(before[m].IP) # To4(pkt.RequestedIP)
        /\ Len(out) = 1 /\ out[1].MessageType = "ACK"

\* C17 as claimed (one lease per client with supersession): when a client that
\* has a lease for x is ACKed for a different free in-pool address y, its lease
\* for x is replaced by the lease for y, and x is free for other clients
\* immediately afterwards.  (One lease per client: leases is a map keyed by
\* the client.)
SupersessionFreesOld ==
    LET m == pkt.ClientHWAddr
    IN  Superseding
        => /\ m \in DOMAIN leases
           /\ To4(leases[m].IP) = To4(pkt.RequestedIP)
           /\ isIPAvailable(before[m].IP)

\* C17 as amended: the client's lease for x is replaced by the lease for y
\* (expiry now + leaseDuration), no other client's lease changes, and x is
\* free afterwards exactly when no other client holds an unexpired lease
\* for it.
Supersession ==
    LET m == pkt.ClientHWAddr
    IN  Superseding
        => /\ m \in DOMAIN leases
           /\ To4(leases[m].IP) = To4(pkt.RequestedIP)
           /\ out[1].YourIP = To4(pkt.RequestedIP)
           /\ leases[m].ExpiryTime = now + leaseDuration
           /\ OthersUnchanged(before, leases, m)
           /\ isIPAvailable(before[m].IP)
                <=> ~\E d \in Clients \ {m} : Holds(before, d, before[m].IP)

\* C17 witness: a client moves from an unexpired lease to another address and
\* the address it leaves is free at once.
SupersessionWitness ==
    LET m == pkt.ClientHWAddr
    IN  /\ Superseding
        /\ before[m].ExpiryTime > now
        /\ To4(leases[m].IP) = To4(pkt.RequestedIP)
        /\ isIPAvailable(before[m].IP)

\* No lease of a client other than c holds ip with expiry > now, in table t.
FreeExcluding(t, ip, c) == \A d \in Clients \ {c} : ~Holds(t, d, ip)

\* C19 (availability check equals isAddressFree with exclusion): wherever
\* handleRequest, or handleDiscover through findAvailableIP, calls
\* isIPAvailable(ip) for a client c, the result equals "no lease of a client
\* other than c holds ip with expiry > now".  First for the calls the next
\* packet can make from an idle server, then for the outcome of the call the
\* running handler has made.
AvailabilityEqualsExclusion ==
    /\ pkt = NoPacket =>
         \A c \in Clients :
            /\ \A r \in RequestedIPs :
                 ( /\ isIPInPool(r)
                   /\ ~(c \in DOMAIN leases /\ IPEqual(leases[c].IP, r)) )
                 => (isIPAvailable(r) <=> FreeExcluding(leases, r, c))
            /\ ~(c \in DOMAIN leases /\ leases[c].ExpiryTime > now)
                 => \A i \in DOMAIN ipPool :
                       isIPAvailable(ipPool[i])
                          <=> FreeExcluding(leases, ipPool[i], c)
    /\ LET m == pkt.ClientHWAddr
       IN  /\ ( /\ pkt.MessageType = "REQUEST"
                /\ InPool(pkt.RequestedIP)
                /\ ~(m \in DOMAIN before
                     /\ To4(before[m].IP) = To4(pkt.RequestedIP)) )
              => ( (Len(out) = 1 /\ out[1].MessageType = "ACK")
                     <=> FreeExcluding(before, pkt.RequestedIP, m) )
           /\ ( /\ pkt.MessageType = "DISCOVER"
                /\ ~(m \in DOMAIN before /\ before[m].ExpiryTime > now) )
              => IF out = <<>>
                 THEN \A i \in DOMAIN ipPool :
                         ~FreeExcluding(before, ipPool[i], m)
                 ELSE FreeExcluding(before, out[1].YourIP, m)

\* C19 witness: a client whose own lease for an address has expired sends
\* DISCOVER; the scan passes over the client's own lease and the address is
\* offered to it.
AvailabilityWitness ==
    LET m == pkt.ClientHWAddr
    IN  /\ pkt.MessageType = "DISCOVER"
        /\ m \in DOMAIN before
        /\ before[m].ExpiryTime <= now
        /\ out # <<>>
        /\ out[1].YourIP = To4(before[m].IP)

\* ip lies in the configured range [StartIP, EndIP] of the rogue handler.
InRange(ip) ==
    /\ To4(ip) # Nil
    /\ bytesCompare(To4(config.StartIP), To4(ip)) <= 0
    /\ bytesCompare(To4(ip), To4(config.EndIP)) <= 0

\* C18 (address containment in RogueDHCPHandler.ServeDHCP): every address
\* carried in an OFFER or an ACK, and every address stored in leaseDB, lies in
\* the configured range [StartIP, EndIP], also for a REQUEST from a client
\* that never sent a DISCOVER.
RogueAddressContainment ==
    /\ \A m \in DOMAIN leaseDB : InRange(leaseDB[m])
    /\ reply.MessageType \in {"OFFER", "ACK"} => InRange(reply.YourIP)

\* The number of addresses from a to e, both in the same form: 0 if a > e.
RECURSIVE SpanFrom(_, _)
SpanFrom(a, e) == IF a = e THEN 1 ELSE 1 + SpanFrom(nextIP(a), e)

Span(a, e) == IF bytesCompare(a, e) > 0 THEN 0 ELSE SpanFrom(a, e)

\* C20 (pool construction terminates): for every parseable start and end
\* address, the end address 255.255.255.255 and start > end included, the
\* enumeration loop of NewDHCPServer finishes and returns a finite pool: the
\* loop body never runs more often than there are addresses from start to
\* end, and the pool never has more elements than that.
PoolConstructionTerminates ==
    loopPC \in {"loop", "done"}
    => /\ loopIter <= Span(poolStart, poolEnd)
       /\ Len(ipPool) <= Span(poolStart, poolEnd)

\* The 4-byte addresses from a to e in ascending order, for a <= e.
RECURSIVE RangeSeq(_, _)
RangeSeq(a, e) == IF a = e THEN <<a>> ELSE <<a>> \o RangeSeq(nextIP(a), e)

\* The addresses a with start <= a <= end and a # serverIP, ascending.
ExpectedPool ==
    LET Keep(a) == ~IPEqual(a, serverIP)
    IN  SelectSeq(RangeSeq(To4(poolStart), To4(poolEnd)), Keep)

\* Addresses isIPInPool is asked about, in both forms.
Probes ==
    LET quads == { <<10, 0, 0, 253>>, <<10, 0, 0, 254>>, <<10, 0, 0, 255>>,
                   <<10, 0, 1, 0>>, <<10, 0, 1, 1>>, <<10, 0, 1, 2>>,
                   <<255, 255, 255, 252>>, <<255, 255, 255, 253>>,
                   <<255, 255, 255, 254>>, <<255, 255, 255, 255>>,
                   <<0, 0, 0, 0>> }
    IN  quads \cup { ParseIP(q) : q \in quads }

\* C16 (pool construction in NewDHCPServer): for every IPv4 start/end/server
\* triple with start <= end, ipPool is exactly the addresses a with
\* start <= a <= end and a # serverIP, each once, in ascending order with
\* carry across octets (while the loop runs, the pool built so far is a prefix
\* of that sequence), and once the server is returned isIPInPool(ip) is true
\* iff ip is one of those addresses.
PoolConstructionExact ==
    ( /\ loopPC \in {"loop", "done"}
      /\ To4(poolStart) # Nil /\ To4(poolEnd) # Nil
      /\ bytesCompare(To4(poolStart), To4(poolEnd)) <= 0 )
    => /\ Len(ipPool) <= Len(ExpectedPool)
       /\ \A i \in DOMAIN ipPool :
             i <= Len(ExpectedPool) => To4(ipPool[i]) = ExpectedPool[i]
       /\ loopPC = "done"
            => /\ Len(ipPool) = Len(ExpectedPool)
               /\ \A ip \in Probes :
                     isIPInPool(ip)
                        <=> \E i \in DOMAIN ExpectedPool :
                               ExpectedPool[i] = To4(ip)

\* The positions at which a handler is inside its critical section.
Critical == {"locked", "read", "written", "sent"}

\* The two handlers run one after the other in the order o, from the table
\* the burst found, leave the table and the datagrams the concurrent run has.
SerialOutcome(o) ==
    LET r1 == Served(before, gpkt[o[1]])
        r2 == Served(r1.leases, gpkt[o[2]])
    IN  /\ leases = r2.leases
        /\ sent[o[1]] = r1.out
        /\ sent[o[2]] = r2.out

Atomic ==
    /\ \A g \in Goroutines : pc[g] \in Critical => mu = g
    /\ \A g \in Goroutines : pc[g] = "done" => mu # g
    /\ (\A g \in Goroutines : pc[g] = "done")
         => /\ mu = NoGoroutine
            /\ SerialOutcome(<<"g1", "g2">>) \/ SerialOutcome(<<"g2", "g1">>)

\* C14 (per-message atomicity): when handleDHCPRequest runs concurrently for
\* several packets, each handler reads and writes the table with the mutex
\* held from start to finish (so no two handlers are inside at once), the
\* outcome of the concurrent run (table and replies) equals the outcome of
\* some serial order of the same messages, the mutex is released on every
\* path, and no handler waits for the mutex forever.
PerMessageAtomicity ==
    /\ []Atomic
    /\ \A g \in Goroutines : (pc[g] = "start") ~> (pc[g] = "done")

\* C14 witness: both handlers have returned after asking for the same free
\* address for two clients, so the order in which they got the mutex decided
\* which request was ACKed, and the other goroutine had to wait.
PerMessageAtomicityWitness ==
    /\ \A g \in Goroutines : pc[g] = "done"
    /\ gpkt["g1"].MessageType = "REQUEST" /\ gpkt["g2"].MessageType = "REQUEST"
    /\ gpkt["g1"].ClientHWAddr # gpkt["g2"].ClientHWAddr
    /\ sent["g1"][1].MessageType = "NAK" /\ sent["g2"][1].MessageType = "ACK"
    /\ SerialOutcome(<<"g2", "g1">>) /\ ~SerialOutcome(<<"g1", "g2">>)

\* C15 (no I/O under the lock): at no point while a handler holds the
\* lease-table mutex has it performed the outbound send of an OFFER, ACK or
\* NAK; the send happens only after the mutex is released.
NoSendUnderLock ==
    \A g \in Goroutines : sent[g] # <<>> => mu # g

=============================================================================
